---- MODULE Spec2Model ----
(***************************************************************************)
(* zotero-esovdb (zotvid) 1.5.0: the CLI that mirrors ESOVDB video records *)
(* as items of a Zotero library and writes the assigned keys and versions  *)
(* back to the ESOVDB.                                                     *)
(*                                                                         *)
(* The program is one async function (main).  Every await of main is a     *)
(* request to one of the two remote stores; an action of this module is    *)
(* one such request together with its response and the code main runs up   *)
(* to its next request.  The two stores are part of the state, so that a   *)
(* later invocation of the CLI sees what an earlier one wrote.             *)
(*                                                                         *)
(* JavaScript values: a string is a TLA+ string and the empty string is    *)
(* the absent (falsy) value; a number is an integer and 0 is falsy; an     *)
(* object is a function on its field names; undefined is the empty         *)
(* function.  Strings the code takes apart with a regular expression are   *)
(* sequences of one-character strings.                                     *)
(***************************************************************************)
EXTENDS Integers, Sequences, FiniteSets, TLC

(***************************************************************************)
(* Bounds of the model.                                                    *)
(***************************************************************************)
\* number of records of the ESOVDB videos table
MaxVideos == 3
\* number of invocations of the CLI in a sequence of runs
MaxRuns == 2
\* number of records of the videos table in a sequence of runs
ResyncVideos == 1
\* iterations of the submission loop that are followed (the loop does not
\* end when the chunk size is not positive)
MaxPosts == MaxVideos + 2
\* number of records of the videos table in SpecQuery
QueryVideos == 1
\* number of presenters of a record in SpecFormat
MaxPresenters == 2
\* number of payloads in SpecChunk
MaxPayloads == 52
\* the loop of SpecChunk is followed for at most this many iterations
MaxSplices == MaxPayloads + 1

(***************************************************************************)
(* Program constants.                                                      *)
(***************************************************************************)
\* --chunk-size: values above 50 are clamped to 50, and 50 is the default
MaxChunkSize == 50
\* --page-size: int > 100 ? 100 : int
MaxPageSize == 100
DefaultChunkSize == 50
\* --wait-secs default
DefaultWaitSecs == 10
\* /rec[\w]{14}$/
IdWordChars == 14

Undefined == << >>

\* truthiness of a string and of a number
TruthyStr(v) == v # ""

TruthyNum(v) == v # 0

(***************************************************************************)
(* Characters and the record id pattern.                                   *)
(***************************************************************************)
WordChars ==
  { "A", "B", "C", "D", "E", "F", "G", "H", "I", "J", "K", "L", "M", "N", "O", "P",
    "Q", "R", "S", "T", "U", "V", "W", "X", "Y", "Z", "a", "b", "c", "d", "e", "f",
    "g", "h", "i", "j", "k", "l", "m", "n", "o", "p", "q", "r", "s", "t", "u", "v",
    "w", "x", "y", "z", "0", "1", "2", "3", "4", "5", "6", "7", "8", "9", "_" }

\* 'https://airtable.com/tbl3WP689vHdmg7P2/viwD9Tpr6JAAr97CW/'
ArchiveLocationPrefix ==
  << "h", "t", "t", "p", "s", ":", "/", "/", "a", "i", "r", "t", "a", "b", "l", "e",
     ".", "c", "o", "m", "/", "t", "b", "l", "3", "W", "P", "6", "8", "9", "v", "H",
     "d", "m", "g", "7", "P", "2", "/", "v", "i", "w", "D", "9", "T", "p", "r", "6",
     "J", "A", "A", "r", "9", "7", "C", "W", "/" >>

\* MatchRecordId, changed: the pattern is /rec[\w]{13}$/
MatchRecordIdThirteen(str) ==
  LET n == Len(str)
      m == 3 + (IdWordChars - 1)
  IN IF /\ n >= m
        /\ str[n - m + 1] = "r"
        /\ str[n - m + 2] = "e"
        /\ str[n - m + 3] = "c"
        /\ \A k \in (n - m + 4)..n : str[k] \in WordChars
     THEN SubSeq(str, n - m + 1, n)
     ELSE << >>

\* item.data.archiveLocation.match(/rec[\w]{14}$/): the match is the last
\* 3 + 14 characters of the string when they have the form, and null
\* (here the empty sequence) otherwise.
MatchRecordId(str) ==
  LET n == Len(str)
      m == 3 + IdWordChars
  IN IF /\ n >= m
        /\ str[n - m + 1] = "r"
        /\ str[n - m + 2] = "e"
        /\ str[n - m + 3] = "c"
        /\ \A k \in (n - IdWordChars + 1)..n : str[k] \in WordChars
     THEN SubSeq(str, n - m + 1, n)
     ELSE << >>

(***************************************************************************)
(* The static tables of the program.                                       *)
(***************************************************************************)
\* const collections: parent collection names -> parent collection ids
collections ==
  [ series |-> "HYQEFRGR", topics |-> "EGB8TQZ8" ]

CollectionsGet(parent) ==
  IF parent \in DOMAIN collections THEN collections[parent] ELSE ""

\* const topics: ESOVDB topic -> Zotero collection key
topics ==
  [ t \in
    { "Mantle Geodynamics, Geochemistry, Convection, Rheology, & Seismic Imaging and Modeling",
      "Igneous & Metamorphic Petrology, Volcanism, & Hydrothermal Systems",
      "Alluvial, Pluvial & Terrestrial Sedimentology, Erosion & Weathering, Geomorphology, Karst, Groundwater & Provenance",
      "Early Earth, Life's Origins, Deep Biosphere, and the Formation of the Planet",
      "Geological Stories, News, Tours, & Field Trips",
      "History, Education, Careers, Field Work, Economic Geology, & Technology",
      "Glaciation, Atmospheric Science, Carbon Cycle, & Climate",
      "The Anthropocene",
      "Geo-Archaeology",
      "Paleoclimatology, Isotope Geochemistry, Radiometric Dating, Deep Time, & Snowball Earth",
      "Seafloor Spreading, Oceanography, Paleomagnetism, & Geodesy",
      "Tectonics, Terranes, Structural Geology, & Dynamic Topography",
      "Seismology, Mass Wasting, Tsunamis, & Natural Disasters",
      "Minerals, Mining & Resources, Crystallography, & Solid-state Chemistry",
      "Marine & Littoral Sedimentology, Sequence Stratigraphy, Carbonates, Evaporites, Coal, Petroleum, and Mud Volcanism",
      "Planetary Geology, Impact Events, Astronomy, & the Search for Extraterrestrial Life",
      "Paleobiology, Mass Extinctions, Fossils, & Evolution" } |->
    CASE t = "Mantle Geodynamics, Geochemistry, Convection, Rheology, & Seismic Imaging and Modeling" -> "5XQD67DA"
      [] t = "Igneous & Metamorphic Petrology, Volcanism, & Hydrothermal Systems" -> "L6JMIGTE"
      [] t = "Alluvial, Pluvial & Terrestrial Sedimentology, Erosion & Weathering, Geomorphology, Karst, Groundwater & Provenance" -> "BV7G3CIC"
      [] t = "Early Earth, Life's Origins, Deep Biosphere, and the Formation of the Planet" -> "9DK53U7F"
      [] t = "Geological Stories, News, Tours, & Field Trips" -> "XDFHQTC3"
      [] t = "History, Education, Careers, Field Work, Economic Geology, & Technology" -> "M4NKIHBK"
      [] t = "Glaciation, Atmospheric Science, Carbon Cycle, & Climate" -> "AD997U4T"
      [] t = "The Anthropocene" -> "P2WNJD9N"
      [] t = "Geo-Archaeology" -> "UJDCHPB5"
      [] t = "Paleoclimatology, Isotope Geochemistry, Radiometric Dating, Deep Time, & Snowball Earth" -> "L4PLXHN8"
      [] t = "Seafloor Spreading, Oceanography, Paleomagnetism, & Geodesy" -> "NPDV3BHH"
      [] t = "Tectonics, Terranes, Structural Geology, & Dynamic Topography" -> "U3JYUDHI"
      [] t = "Seismology, Mass Wasting, Tsunamis, & Natural Disasters" -> "63TE3Y26"
      [] t = "Minerals, Mining & Resources, Crystallography, & Solid-state Chemistry" -> "YY5W7DB8"
      [] t = "Marine & Littoral Sedimentology, Sequence Stratigraphy, Carbonates, Evaporites, Coal, Petroleum, and Mud Volcanism" -> "37J3LYFL"
      [] t = "Planetary Geology, Impact Events, Astronomy, & the Search for Extraterrestrial Life" -> "HLV7WMZQ"
      [] OTHER -> "VYWX6R2B" ]

\* TopicsGet, changed: every topic is taken for the first key of the table
TopicsGetAny(topic) ==
  IF topic = "" THEN "" ELSE "5XQD67DA"

\* topics.get(topic): undefined (here "") for a topic that is not a key
TopicsGet(topic) ==
  IF topic \in DOMAIN topics THEN topics[topic] ELSE ""


(***************************************************************************)
(* The command line (config.js): the options main reads.                   *)
(***************************************************************************)
\* values given to -c/--chunk-size
ChunkSizeArgs == { 0, 1, 2, 60 }

\* ParseChunkSize, changed: (int) => parseInt(int)
ParseChunkSizeAsIs(int) ==
  int

\* (int) => parseInt(int > 50 ? 50 : int)
ParseChunkSize(int) ==
  IF int > MaxChunkSize THEN MaxChunkSize ELSE int

\* values given to -p/--page-size
PageSizeArgs == { 0, 25, 150 }

\* (int) => parseInt(int > 100 ? 100 : int)
ParsePageSize(int) ==
  IF int > MaxPageSize THEN MaxPageSize ELSE int

\* values given to -C/--created-after and -M/--modified-after
DateArgs == { "2020-12-31", "1969-07-20", "yesterday" }

\* Date.parse(date), in seconds.  The NaN of a string that is no date is
\* represented by 0: the only test applied to the value is `> 0`, which is
\* false for NaN as it is for 0.
DateParse(date) ==
  CASE date = "2020-12-31" -> 1609372800
    [] date = "1969-07-20" -> 0 - 14256000
    [] OTHER -> 0

\* encodeURIComponent(new Date().toLocaleString()): the time of the run
NowLocaleString == "11%2F4%2F2026%2C%2010%3A00%3A00%20AM"

\* encodeURIComponent(new Date(u).toLocaleString())
EncodedLocaleString(u) ==
  CASE u = 1609372800 -> "12%2F31%2F2020%2C%2012%3A00%3A00%20AM"
    [] OTHER -> NowLocaleString

\* the argument parser of -C and of -M: a date that does not parse, or
\* that parses to a time not after 1970-01-01, is replaced by the time of
\* the run
ParseDateOption(date) ==
  LET uModifiedDate == DateParse(date)
  IN IF uModifiedDate > 0
     THEN EncodedLocaleString(uModifiedDate)
     ELSE NowLocaleString

DateOptionKeys == { "createdAfter", "modifiedAfter" }

\* the date options of a command line, in the order they are given: none,
\* one, two, or three with three different dates
DateFlags ==
  { << >> }
  \cup { << [ key |-> k, date |-> a ] >> : k \in DateOptionKeys, a \in DateArgs }
  \cup { << [ key |-> k1, date |-> a1 ], [ key |-> k2, date |-> a2 ] >> :
           k1 \in DateOptionKeys, a1 \in DateArgs,
           k2 \in DateOptionKeys, a2 \in DateArgs }
  \cup { << [ key |-> k1, date |-> "1969-07-20" ],
            [ key |-> k2, date |-> "yesterday" ],
            [ key |-> k3, date |-> "2020-12-31" ] >> :
           k1 \in DateOptionKeys, k2 \in DateOptionKeys, k3 \in DateOptionKeys }

\* an argument vector: c, m and p are the sets of the values given to -c,
\* -m and -p (none or one), j says whether -j was given, d is the list of
\* the date options
Argvs ==
  [ c : { {} } \cup { {a} : a \in ChunkSizeArgs },
    m : { {} } \cup { {a} : a \in 1..(MaxVideos - 1) },
    j : BOOLEAN,
    p : { {} },
    d : { << >> } ]

\* program.parse stores the value of an option as a property of program
\* when it meets the option: keys is the order in which the date
\* properties were created (their order in Object.keys(program))
RECURSIVE SetDateOptions(_, _)
SetDateOptions(prog, d) ==
  IF d = << >> THEN prog
  ELSE LET o == Head(d)
       IN SetDateOptions(
            [ prog EXCEPT ![o.key] = ParseDateOption(o.date),
                          !.keys = IF \E k \in 1..Len(@) : @[k] = o.key
                                   THEN @ ELSE Append(@, o.key) ],
            Tail(d))

\* program.parse(process.argv); 0 and "" stand for the undefined of an
\* option that was not given
ProgramParse(argv) ==
  SetDateOptions(
    [ chunkSize |-> IF argv.c = {}
                    THEN DefaultChunkSize
                    ELSE ParseChunkSize(CHOOSE a \in argv.c : TRUE),
      waitSecs  |-> DefaultWaitSecs,
      \* (int) => parseInt(int)
      maxRecords |-> IF argv.m = {} THEN 0 ELSE CHOOSE a \in argv.m : TRUE,
      pageSize  |-> IF argv.p = {} THEN 0
                    ELSE ParsePageSize(CHOOSE a \in argv.p : TRUE),
      json      |-> argv.j,
      createdAfter  |-> "",
      modifiedAfter |-> "",
      keys      |-> << >> ],
    argv.d)

(***************************************************************************)
(* The content of the ESOVDB: record n of the videos table.                *)
(***************************************************************************)
Digits == << "1", "2", "3", "4", "5", "6", "7", "8", "9" >>

\* the Airtable record id of video n: 'rec' and 14 word characters
RecordId(n) ==
  << "r", "e", "c", "V", "i", "d", "_", "0", "a", "B", "9", "z", "Q", "x", "7", "K",
     Digits[n] >>

\* record 1 belongs to no series, records 2 and 3 to the same one
SeriesOf(n) ==
  IF n = 1 THEN ""
  ELSE IF n <= 3 THEN "Lectures on Geology" ELSE "Field Trips"

SeriesIdOf(series) ==
  CASE series = "Lectures on Geology" -> "recSeriesLectures1"
    [] series = "Field Trips" -> "recSeriesFieldTrp2"
    [] OTHER -> ""

SeriesIds == { "recSeriesLectures1", "recSeriesFieldTrp2" }

\* record 1 has no topic, record 2 a topic of the table, record 3 one
\* that is not in it
TopicOf(n) ==
  CASE n = 1 -> ""
    [] n = 2 -> "The Anthropocene"
    [] n = 3 -> "Speleology"
    [] OTHER -> "Geo-Archaeology"

\* presenters as the ESOVDB returns them: objects with a firstName and a
\* lastName, either of which can be missing or empty; a presenter nobody
\* could name has the lastName 'Unknown'
PresenterBoth == [ firstName |-> "Marie", lastName |-> "Tharp" ]

PresenterUnknown == [ firstName |-> "", lastName |-> "Unknown" ]

PresenterFirstOnly == [ firstName |-> "Hypatia" ]

PresenterLastOnly == [ lastName |-> "NASA" ]

PresenterNoName == [ f \in {} |-> "" ]

PresenterEmptyNames == [ firstName |-> "", lastName |-> "" ]

\* record 1 has no presenter, record 2 one with both names, record 3 an
\* unknown one and one with a first name only
PresentersOf(n) ==
  CASE n = 1 -> << >>
    [] n = 2 -> << PresenterBoth >>
    [] n = 3 -> << PresenterUnknown, PresenterFirstOnly >>
    [] OTHER -> << PresenterLastOnly >>

\* row n of the videos table
VideoRow(n, key, version) ==
  [ topic         |-> TopicOf(n),
    series        |-> SeriesOf(n),
    presenters    |-> PresentersOf(n),
    zoteroKey     |-> key,
    zoteroVersion |-> version ]

\* keys the Zotero library hands out, in this order
ItemKeyPool ==
  << "ITEMKEY1", "ITEMKEY2", "ITEMKEY3", "ITEMKEY4", "ITEMKEY5", "ITEMKEY6",
     "ITEMKEY7", "ITEMKEY8", "ITEMKEY9", "ITEMKEYA", "ITEMKEYB", "ITEMKEYC",
     "ITEMKEYD", "ITEMKEYE", "ITEMKEYF", "ITEMKEYG" >>

CollectionKeyPool ==
  << "COLLKEY1", "COLLKEY2", "COLLKEY3", "COLLKEY4", "COLLKEY5", "COLLKEY6",
     "COLLKEY7", "COLLKEY8", "COLLKEY9", "COLLKEYA", "COLLKEYB", "COLLKEYC" >>

VARIABLES
  argv,            \* the argument vector of this invocation
  program,         \* the parsed options
  run,             \* number of this invocation
  pc,              \* position of main
  esovdbVideos,    \* ESOVDB videos table: n -> the fields of record n
  esovdbSeries,    \* ESOVDB series table: series id -> Zotero Collection
  zotItems,        \* Zotero library: items
  zotCollections,  \* Zotero library: collections
  zotVersion,      \* Zotero library version
  videos,          \* main: videos
  template,        \* main: template
  res,             \* queueAsync: res
  items,           \* main: items
  i,               \* main: i
  totalSuccessful, \* main: totalSuccessful
  totalUnchanged,  \* main: totalUnchanged
  totalFailed,     \* main: totalFailed
  posted,          \* main: posted
  videosJson,      \* file videos.json
  failedJson,      \* file failed.json
  writeFileErr,    \* a write of failed.json failed and its callback is due
  exitCode,        \* exit code of the process, -1 while it runs
  errors,          \* messages written with console.error
  payloads,        \* history: the list queueAsync returned
  calls            \* history: the requests of this invocation, in order

vars ==
  << argv, program, run, pc, esovdbVideos, esovdbSeries, zotItems,
     zotCollections, zotVersion, videos, template, res, items, i,
     totalSuccessful, totalUnchanged, totalFailed, posted, videosJson,
     failedJson, writeFileErr, exitCode, errors, payloads, calls >>

storeVars == << esovdbVideos, esovdbSeries >>

libraryVars == << zotItems, zotCollections, zotVersion >>

loopVars == << items, i, totalSuccessful, totalUnchanged, totalFailed, posted >>

\* one request and its outcome
Call(op, body, ok, data) ==
  [ op |-> op, body |-> body, ok |-> ok, data |-> data ]

(***************************************************************************)
(* The two remote stores, as far as the program talks to them.             *)
(***************************************************************************)
\* the object the ESOVDB API returns for record n of the videos table
QueryVideo(n) ==
  [ recordId      |-> RecordId(n),
    topic         |-> esovdbVideos[n].topic,
    presenters    |-> esovdbVideos[n].presenters,
    series        |-> esovdbVideos[n].series,
    seriesId      |-> SeriesIdOf(esovdbVideos[n].series),
    zoteroSeries  |-> IF esovdbVideos[n].series = "" THEN ""
                      ELSE esovdbSeries[SeriesIdOf(esovdbVideos[n].series)],
    zoteroKey     |-> esovdbVideos[n].zoteroKey,
    zoteroVersion |-> esovdbVideos[n].zoteroVersion ]

\* responses to esovdb.get('videos/query', { params }): an error, no
\* record (the date filter matches none), or the first maxRecords records
\* of the table
ListResponses(params) ==
  LET all == Len(esovdbVideos)
      m == IF "maxRecords" \in DOMAIN params /\ params.maxRecords < all
           THEN params.maxRecords ELSE all
  IN { [ ok |-> FALSE, data |-> << >> ],
       [ ok |-> TRUE, data |-> << >> ],
       [ ok |-> TRUE, data |-> [ n \in 1..m |-> QueryVideo(n) ] ] }

\* the template Zotero returns for itemType=videoRecording (the fields of
\* it that the payload of this model has)
TemplateVideoRecording ==
  [ itemType        |-> "videoRecording",
    creators        |-> << >>,
    seriesTitle     |-> "",
    archiveLocation |-> << >>,
    tags            |-> << >>,
    collections     |-> << >>,
    relations       |-> << >> ]

\* responses to zotero.get('items/new'): an error, an empty body, the template
TemplateResponses ==
  { [ ok |-> FALSE, data |-> Undefined ],
    [ ok |-> TRUE, data |-> Undefined ],
    [ ok |-> TRUE, data |-> TemplateVideoRecording ] }

\* Object.values(obj) of an object with integer keys: ascending key order
RECURSIVE ObjectValues(_)
ObjectValues(obj) ==
  IF DOMAIN obj = {} THEN << >>
  ELSE LET k == CHOOSE x \in DOMAIN obj : \A y \in DOMAIN obj : x <= y
       IN << obj[k] >> \o ObjectValues([ j \in DOMAIN obj \ {k} |-> obj[j] ])

\* outcomes the Zotero API can report for the objects of one write request:
\* an object is left unchanged only when it names an existing key
ZoteroOutcomes(chunk) ==
  { o \in [ 1..Len(chunk) -> { "successful", "unchanged", "failed" } ] :
      \A k \in 1..Len(chunk) :
        o[k] = "unchanged" => "key" \in DOMAIN chunk[k] }

\* the library after a write request with outcomes o, and the response
\* body: successful, unchanged and failed keyed by the index in the request
RECURSIVE ZoteroWrite(_, _, _, _, _)
ZoteroWrite(acc, chunk, o, k, ver) ==
  IF k > Len(chunk) THEN acc
  ELSE
    LET p == chunk[k]
        hasKey == "key" \in DOMAIN p
        known == IF hasKey
                 THEN { x \in 1..Len(acc.items) : acc.items[x].key = p.key }
                 ELSE {}
        key == IF hasKey THEN p.key ELSE ItemKeyPool[Len(acc.items) + 1]
        obj == [ key |-> key, version |-> ver, data |-> p ]
    IN CASE o[k] = "successful" ->
              ZoteroWrite(
                [ acc EXCEPT
                    !.items = IF known = {}
                              THEN Append(acc.items, obj)
                              ELSE [ x \in 1..Len(acc.items) |->
                                       IF x \in known THEN obj ELSE acc.items[x] ],
                    !.successful = ((k - 1) :> obj) @@ acc.successful ],
                chunk, o, k + 1, ver)
         [] o[k] = "unchanged" ->
              ZoteroWrite(
                [ acc EXCEPT !.unchanged = ((k - 1) :> p.key) @@ acc.unchanged ],
                chunk, o, k + 1, ver)
         [] OTHER ->
              ZoteroWrite(
                [ acc EXCEPT
                    !.failed = ((k - 1) :> [ key |-> IF hasKey THEN p.key ELSE "",
                                             code |-> 400 ]) @@ acc.failed ],
                chunk, o, k + 1, ver)

\* responses to zoteroLibrary.post('items', chunk): an error that leaves
\* the library as it is, or a body for each choice of outcomes; items and
\* version are the library after the request
PostItemsResponses(chunk) ==
  { [ ok |-> FALSE, data |-> << >>, items |-> zotItems, version |-> zotVersion ] }
  \cup
  { LET w == ZoteroWrite([ items |-> zotItems, successful |-> << >>,
                           unchanged |-> << >>, failed |-> << >> ],
                         chunk, o, 1, zotVersion + 1)
    IN [ ok      |-> TRUE,
         data    |-> [ successful |-> w.successful,
                       unchanged  |-> w.unchanged,
                       failed     |-> w.failed ],
         items   |-> w.items,
         version |-> IF DOMAIN w.successful = {}
                     THEN zotVersion ELSE zotVersion + 1 ] :
    o \in ZoteroOutcomes(chunk) }

\* the ESOVDB videos table after an update request
RECURSIVE EsovdbUpdateVideos(_, _)
EsovdbUpdateVideos(table, updates) ==
  IF updates = << >> THEN table
  ELSE LET u == Head(updates)
       IN EsovdbUpdateVideos(
            [ n \in 1..Len(table) |->
                IF RecordId(n) = u.id
                THEN [ table[n] EXCEPT
                         !.zoteroKey     = u.fields["Zotero Key"],
                         !.zoteroVersion = u.fields["Zotero Version"] ]
                ELSE table[n] ],
            Tail(updates))

\* the ESOVDB series table after an update request
RECURSIVE EsovdbUpdateSeries(_, _)
EsovdbUpdateSeries(table, updates) ==
  IF updates = << >> THEN table
  ELSE LET u == Head(updates)
       IN EsovdbUpdateSeries(
            [ id \in DOMAIN table |->
                IF id = u.id THEN u.fields["Zotero Collection"] ELSE table[id] ],
            Tail(updates))

(***************************************************************************)
(* The functions of the program.  A function that sends a request takes    *)
(* the outcome of the request as an argument and returns, with its value,  *)
(* the requests it sent and the messages it wrote with console.error.      *)
(***************************************************************************)
\* Object.keys(program).indexOf(key) of a date option (the keys before
\* them in Object.keys(program) are the same for both)
IndexOfKey(opts, key) ==
  IF \E k \in 1..Len(opts.keys) : opts.keys[k] = key
  THEN CHOOSE k \in 1..Len(opts.keys) : opts.keys[k] = key
  ELSE 0 - 1

\* DateParams, changed: each date option that was given is sent
DateParamsEach(opts) ==
  (IF TruthyStr(opts.createdAfter)
   THEN [ createdAfter |-> opts.createdAfter ] ELSE << >>)
  @@ (IF TruthyStr(opts.modifiedAfter)
      THEN [ modifiedAfter |-> opts.modifiedAfter ] ELSE << >>)

\* DateParams, changed: modifiedAfter is preferred when both are given
DateParamsModifiedFirst(opts) ==
  IF TruthyStr(opts.modifiedAfter)
  THEN [ modifiedAfter |-> opts.modifiedAfter ]
  ELSE IF TruthyStr(opts.createdAfter)
       THEN [ createdAfter |-> opts.createdAfter ] ELSE << >>

\* main: the date filter of params
DateParams(opts) ==
  IF TruthyStr(opts.createdAfter) /\ TruthyStr(opts.modifiedAfter)
  THEN IF IndexOfKey(opts, "createdAfter") > IndexOfKey(opts, "modifiedAfter")
       THEN [ createdAfter |-> opts.createdAfter ]
       ELSE [ modifiedAfter |-> opts.modifiedAfter ]
  ELSE (IF TruthyStr(opts.createdAfter)
        THEN [ createdAfter |-> opts.createdAfter ] ELSE << >>)
       @@ (IF TruthyStr(opts.modifiedAfter)
           THEN [ modifiedAfter |-> opts.modifiedAfter ] ELSE << >>)

\* main: params
Params(opts) ==
  (IF TruthyNum(opts.maxRecords)
   THEN [ maxRecords |-> opts.maxRecords ] ELSE << >>)
  @@ (IF TruthyNum(opts.pageSize)
      THEN [ pageSize |-> opts.pageSize ] ELSE << >>)
  @@ DateParams(opts)

\* getVideos: the records, or undefined when the request fails or returns
\* no record (the error is thrown and caught inside getVideos)
getVideos(response) ==
  IF response.ok /\ Len(response.data) > 0
  THEN [ value |-> response.data, errors |-> << >> ]
  ELSE [ value  |-> Undefined,
         errors |-> << IF response.ok
                       THEN "Failed to retreive videos from the ESOVDB."
                       ELSE "esovdb.get failed" >> ]

\* updateTable, changed: every update is posted to the videos table
updateTableVideosOnly(updates, table, ok) ==
  [ value  |-> IF ok THEN updates ELSE Undefined,
    calls  |-> << Call("POST videos/update", updates, ok, << >>) >>,
    errors |-> IF ok THEN << >> ELSE << "esovdb.post failed" >> ]

\* updateTable: the items sent when the response status is 200, undefined
\* otherwise
updateTable(updates, table, ok) ==
  [ value  |-> IF ok THEN updates ELSE Undefined,
    calls  |-> << Call("POST " \o table \o "/update", updates, ok, << >>) >>,
    errors |-> IF ok THEN << >> ELSE << "esovdb.post failed" >> ]

\* getTemplate: the template, or undefined when the request fails or the
\* body is empty
getTemplate(response) ==
  IF response.ok /\ response.data # Undefined
  THEN [ value |-> response.data, errors |-> << >> ]
  ELSE [ value  |-> Undefined,
         errors |-> << IF response.ok
                       THEN "Couldn't get template from Zotero."
                       ELSE "zotero.get failed" >> ]

\* createCollection, changed: a request that failed or created nothing
\* still answers with a key
createCollectionKeyOnFailure(name, parent, outcome, newKey) ==
  LET body == << [ name |-> name, parentCollection |-> CollectionsGet(parent) ] >>
  IN IF TruthyStr(CollectionsGet(parent))
     THEN [ value   |-> [ data |-> [ success |-> << newKey >>, failed |-> << >> ] ],
            calls   |-> << Call("POST zotero/collections", body, outcome = "ok",
                                IF outcome = "ok" THEN << newKey >> ELSE << >>) >>,
            created |-> IF outcome = "ok"
                        THEN << [ key |-> newKey, name |-> name,
                                  parentCollection |-> CollectionsGet(parent) ] >>
                        ELSE << >>,
            errors  |-> << >> ]
     ELSE [ value   |-> Undefined,
            calls   |-> << >>,
            created |-> << >>,
            errors  |-> << "Unrecognized subcollection type." >> ]

\* createCollection: the response of the library, or undefined when the
\* parent is not one of collections or the request fails.  newKey is the
\* key the library gives the collection when it creates it.
createCollection(name, parent, outcome, newKey) ==
  LET body == << [ name |-> name, parentCollection |-> CollectionsGet(parent) ] >>
  IN IF TruthyStr(CollectionsGet(parent))
     THEN CASE outcome = "ok" ->
                 [ value   |-> [ data |-> [ success |-> << newKey >>,
                                            failed  |-> << >> ] ],
                   calls   |-> << Call("POST zotero/collections", body, TRUE, << newKey >>) >>,
                   created |-> << [ key |-> newKey, name |-> name,
                                    parentCollection |-> CollectionsGet(parent) ] >>,
                   errors  |-> << >> ]
            [] outcome = "nosuccess" ->
                 [ value   |-> [ data |-> [ success |-> << >>,
                                            failed  |-> << [ code |-> 400 ] >> ] ],
                   calls   |-> << Call("POST zotero/collections", body, TRUE, << >>) >>,
                   created |-> << >>,
                   errors  |-> << >> ]
            [] OTHER ->
                 [ value   |-> Undefined,
                   calls   |-> << Call("POST zotero/collections", body, FALSE, << >>) >>,
                   created |-> << >>,
                   errors  |-> << "zoteroLibrary.post failed" >> ]
     ELSE [ value   |-> Undefined,
            calls   |-> << >>,
            created |-> << >>,
            errors  |-> << "Unrecognized subcollection type." >> ]

\* postItems, changed: a failed request counts as a response with no item
postItemsSkipFailure(chunk, response) ==
  [ value      |-> IF response.ok
                   THEN [ successful |-> ObjectValues(response.data.successful),
                          unchanged  |-> ObjectValues(response.data.unchanged),
                          failed     |-> ObjectValues(response.data.failed) ]
                   ELSE [ successful |-> << >>, unchanged |-> << >>,
                          failed |-> << >> ],
    calls      |-> << Call("POST items", chunk, response.ok, response.data) >>,
    failedJson |-> << >>,
    errors     |-> IF response.ok THEN << >> ELSE << "zoteroLibrary.post failed" >> ]

\* postItems: the three lists of the response, or undefined when the
\* request fails.  failedJson is what it writes to failed.json, if anything.
postItems(chunk, response) ==
  IF response.ok
  THEN LET successful == ObjectValues(response.data.successful)
           unchanged  == ObjectValues(response.data.unchanged)
           failed     == ObjectValues(response.data.failed)
       IN [ value      |-> [ successful |-> successful,
                             unchanged  |-> unchanged,
                             failed     |-> failed ],
            calls      |-> << Call("POST items", chunk, TRUE, response.data) >>,
            failedJson |-> IF Len(failed) > 0
                           THEN << response.data.failed >> ELSE << >>,
            errors     |-> IF Len(failed) > 0
                           THEN << "Failed to post videos." >> ELSE << >> ]
  ELSE [ value      |-> Undefined,
         calls      |-> << Call("POST items", chunk, FALSE, << >>) >>,
         failedJson |-> << >>,
         errors     |-> << "zoteroLibrary.post failed" >> ]

\* !presenter[f]: the field is missing or the empty string
FalsyField(presenter, f) ==
  f \notin DOMAIN presenter \/ presenter[f] = ""

\* '' + presenter[f]: a missing field concatenates as 'undefined'
ConcatField(presenter, f) ==
  IF f \in DOMAIN presenter THEN presenter[f] ELSE "undefined"

\* presenter.firstName || '' + presenter.lastName || '': + binds tighter
\* than ||
CreatorName(presenter) ==
  IF ~FalsyField(presenter, "firstName") THEN presenter.firstName
  ELSE IF ConcatField(presenter, "lastName") # ""
       THEN ConcatField(presenter, "lastName")
       ELSE ""

\* the callback of video.presenters.map: it returns nothing (undefined)
\* for a presenter whose lastName is 'Unknown'
Creator(presenter) ==
  IF ~("lastName" \in DOMAIN presenter /\ presenter.lastName = "Unknown")
  THEN IF FalsyField(presenter, "firstName") \/ FalsyField(presenter, "lastName")
       THEN [ creatorType |-> "contributor", name |-> CreatorName(presenter) ]
       ELSE [ creatorType |-> "contributor",
              firstName   |-> presenter.firstName,
              lastName    |-> presenter.lastName ]
  ELSE Undefined

\* formatItems: const presenters
Presenters(video) ==
  IF Len(video.presenters) > 0
  THEN [ k \in 1..Len(video.presenters) |-> Creator(video.presenters[k]) ]
  ELSE << >>

\* formatItems: the object literal `payload`
Payload(video, tpl) ==
  [ itemType        |-> "videoRecording",
    creators        |-> Presenters(video),
    seriesTitle     |-> video.series,
    archiveLocation |-> ArchiveLocationPrefix \o video.recordId,
    tags            |-> << >>,
    collections     |-> IF TruthyStr(TopicsGet(video.topic))
                        THEN << TopicsGet(video.topic) >> ELSE << >>,
    relations       |-> << >> ] @@ tpl

\* KeyAndVersion, changed: the key and the version are never copied
KeyAndVersionNever(payload, video) ==
  payload

\* KeyAndVersion, changed: each of the two is copied when it is present
KeyAndVersionEach(payload, video) ==
  (IF TruthyStr(video.zoteroKey) THEN [ key |-> video.zoteroKey ] ELSE << >>)
  @@ (IF TruthyNum(video.zoteroVersion)
      THEN [ version |-> video.zoteroVersion ] ELSE << >>)
  @@ payload

\* formatItems: if (video.zoteroKey && video.zoteroVersion) { ... }
KeyAndVersion(payload, video) ==
  IF TruthyStr(video.zoteroKey) /\ TruthyNum(video.zoteroVersion)
  THEN [ key |-> video.zoteroKey, version |-> video.zoteroVersion ] @@ payload
  ELSE payload

\* PushCollection, changed: payload.collections.unshift(key)
PushCollectionFront(payload, key) ==
  [ payload EXCEPT !.collections = << key >> \o @ ]

\* PushCollection, changed: the key is not added
PushCollectionNot(payload, key) ==
  payload

\* payload.collections.push(key)
PushCollection(payload, key) ==
  [ payload EXCEPT !.collections = Append(@, key) ]

\* outcomes of the requests of one formatItems call
FormatOutcomes(video) ==
  IF TruthyStr(video.series) /\ ~TruthyStr(video.zoteroSeries)
  THEN { [ create |-> "error", update |-> FALSE ],
         [ create |-> "nosuccess", update |-> FALSE ],
         [ create |-> "ok", update |-> FALSE ],
         [ create |-> "ok", update |-> TRUE ] }
  ELSE { [ create |-> "none", update |-> FALSE ] }

\* formatItems: the payload, the collections the library created for it
\* and the series updates the ESOVDB accepted
formatItems(video, tpl, outcome, newKey) ==
  LET payload == KeyAndVersion(Payload(video, tpl), video)
      plain == [ payload |-> payload, calls |-> << >>, created |-> << >>,
                 synced |-> << >>, errors |-> << >> ]
  IN IF ~TruthyStr(video.series) THEN plain
     ELSE IF TruthyStr(video.zoteroSeries)
     THEN [ plain EXCEPT !.payload = PushCollection(payload, video.zoteroSeries) ]
     ELSE
       LET c == createCollection(video.series, "series", outcome.create, newKey)
       IN IF c.value = Undefined
          THEN \* const { data } = undefined throws, caught at the end
               [ plain EXCEPT !.calls = c.calls,
                              !.errors = c.errors \o << "TypeError" >> ]
          ELSE IF Len(c.value.data.success) > 0
          THEN LET key == c.value.data.success[1]
                   u == updateTable(
                          << [ id     |-> video.seriesId,
                               fields |-> [ f \in { "Zotero Collection" } |-> key ] ] >>,
                          "series", outcome.update)
               IN [ payload |-> PushCollection(payload, key),
                    calls   |-> c.calls \o u.calls,
                    created |-> c.created,
                    synced  |-> IF u.value = Undefined THEN << >> ELSE u.value,
                    errors  |-> c.errors \o u.errors \o
                                IF u.value # Undefined /\ Len(u.value) > 0
                                THEN << >>
                                ELSE << "Failed to sync series collection key with the ESOVDB" >> ]
          ELSE [ plain EXCEPT !.calls = c.calls,
                              !.errors = c.errors \o
                                << "Failed to create series collection." >> ]

\* MainBranch, changed: -j is tested before the records are
MainBranchJsonFirst(v, opts) ==
  IF opts.json THEN "dump"
  ELSE IF Len(v) > 0 THEN "sync" ELSE "abort"

\* MainBranch, changed: -j is not tested
MainBranchNoJson(v, opts) ==
  IF Len(v) > 0 THEN "sync" ELSE "abort"

\* main after getVideos: if (videos && videos.length > 0) { if
\* (program.json) { dump, exit } ... } else throw
MainBranch(v, opts) ==
  IF Len(v) > 0
  THEN IF opts.json THEN "dump" ELSE "sync"
  ELSE "abort"

\* items.splice(0, deleteCount): the number of elements removed
DeleteCount(arr, deleteCount) ==
  IF deleteCount < 0 THEN 0
  ELSE IF deleteCount > Len(arr) THEN Len(arr) ELSE deleteCount

\* items.splice(0, deleteCount): the elements returned
SpliceRemoved(arr, deleteCount) ==
  SubSeq(arr, 1, DeleteCount(arr, deleteCount))

\* SpliceKept, changed: one element more is removed than is returned
SpliceKeptOneMore(arr, deleteCount) ==
  SubSeq(arr, DeleteCount(arr, deleteCount) + 2, Len(arr))

\* items.splice(0, deleteCount): the array afterwards
SpliceKept(arr, deleteCount) ==
  SubSeq(arr, DeleteCount(arr, deleteCount) + 1, Len(arr))

\* AddPosted, changed: posted = [...successful]
AddPostedOverwrite(sofar, successful) ==
  IF Len(successful) > 0 THEN successful ELSE sofar

\* if (successful.length > 0) posted = [...posted, ...successful]
AddPosted(sofar, successful) ==
  IF Len(successful) > 0 THEN sofar \o successful ELSE sofar

\* AddTotal, changed: total = list.length
AddTotalAssign(total, list) ==
  Len(list)

\* total += list.length
AddTotal(total, list) ==
  total + Len(list)

\* if (items.length > program.chunkSize) await sleep(program.waitSecs),
\* evaluated after the splice
SleepCalls(arr, opts) ==
  IF Len(arr) > opts.chunkSize
  THEN << Call("sleep", << opts.waitSecs >>, TRUE, << >>) >>
  ELSE << >>

\* HasPosted, changed: the videos table is updated in every run
HasPostedAlways(sofar) ==
  TRUE

\* if (posted.length > 0) { ... updateTable(itemsToSync, 'videos') ... }
HasPosted(sofar) ==
  Len(sofar) > 0

\* posted.map((item) => ({ id: ..., fields: { ... } })); an id of << >> is
\* the null of a failed match, on which [0] throws
ItemsToSync(sofar) ==
  [ k \in 1..Len(sofar) |->
      [ id     |-> MatchRecordId(sofar[k].data.archiveLocation),
        fields |-> [ f \in { "Zotero Key", "Zotero Version" } |->
                       IF f = "Zotero Key" THEN sofar[k].key
                       ELSE sofar[k].version ] ] ]

(***************************************************************************)
(* The summary main prints after the loop: the lines, each with the number *)
(* printed in the brackets, the plural ending and the text.                *)
(***************************************************************************)
SummaryLine(count, ending, text) ==
  [ count |-> count, ending |-> ending, text |-> text ]

\* main of version 1.5.0: if (total > 0) log(`[${total}] item${total === 1
\* ? '' : 's'} total ...`), for each of the three totals
Summary(successful, unchanged, failed) ==
  (IF successful > 0
   THEN << SummaryLine(successful, IF successful = 1 THEN "" ELSE "s",
                       "total added or updated.") >>
   ELSE << >>)
  \o (IF unchanged > 0
      THEN << SummaryLine(unchanged, IF unchanged = 1 THEN "" ELSE "s",
                          "total left unchanged.") >>
      ELSE << >>)
  \o (IF failed > 0
      THEN << SummaryLine(failed, IF failed = 1 THEN "" ELSE "s",
                          "total failed to add or update.") >>
      ELSE << >>)

\* main of bin/index.js (version 1.3.0): the same three tests; the line for
\* the failed items is `[${totalUnchanged}] item${totalFailed > 1 ? 's' :
\* ''} total failed to add or update.`
SummaryBin(successful, unchanged, failed) ==
  (IF successful > 0
   THEN << SummaryLine(successful, IF successful > 1 THEN "s" ELSE "",
                       "total added or updated.") >>
   ELSE << >>)
  \o (IF unchanged > 0
      THEN << SummaryLine(unchanged, IF unchanged > 1 THEN "s" ELSE "",
                          "total left unchanged.") >>
      ELSE << >>)
  \o (IF failed > 0
      THEN << SummaryLine(unchanged, IF failed > 1 THEN "s" ELSE "",
                          "total failed to add or update.") >>
      ELSE << >>)

(***************************************************************************)
(* queueAsync.  The functions of functor are numbered from 0, as the       *)
(* indices of the array are.  What the chain of promises does is written   *)
(* as the sequence of its events: "call" is functor[f](), "resolved" is    *)
(* the resolution of the promise that call returned, "push" is             *)
(* res.push of its value.                                                  *)
(***************************************************************************)
QueueEvent(e, f) ==
  [ e |-> e, f |-> f ]

\* the callback (val) => { res.push(val); return i === length - 1 ?
\* c().then((val) => res.push(val)) : c(); } the reduce attaches at index i:
\* val is the value of functor[i - 1], c is functor[i]
ThenCallback(idx, length) ==
  << QueueEvent("push", idx - 1), QueueEvent("call", idx),
     QueueEvent("resolved", idx) >>
  \o IF idx = length - 1 THEN << QueueEvent("push", idx) >> ELSE << >>

\* functor.reduce(callback) without an initial value: the accumulator a
\* starts as functor[0], the index at 1; a callback runs when the promise
\* it was attached to is resolved
RECURSIVE Reduce(_, _, _)
Reduce(a, idx, length) ==
  IF idx > length - 1 THEN a
  ELSE Reduce(a \o ThenCallback(idx, length), idx + 1, length)

\* queueAsync, changed: every function is called at once and the values
\* are pushed as Promise.all delivers them
queueAsyncAllAtOnce(length) ==
  [ k \in 1..(2 * length) |->
      IF k <= length THEN QueueEvent("call", k - 1)
      ELSE QueueEvent("resolved", k - length - 1) ]
  \o [ k \in 1..length |-> QueueEvent("push", k - 1) ]

\* queueAsync(functor) for a functor of length >= 1: (i === 1 ? a() : a)
\* calls functor[0] when the reduce starts
queueAsync(length) ==
  IF length > 1
  THEN Reduce(<< QueueEvent("call", 0), QueueEvent("resolved", 0) >>, 1, length)
  ELSE << QueueEvent("call", 0), QueueEvent("resolved", 0),
          QueueEvent("push", 0) >>

\* the functions of a chain in the order of one kind of their events
QueueOrder(length, e) ==
  LET evs == SelectSeq(queueAsync(length), LAMBDA ev : ev.e = e)
  IN [ k \in 1..Len(evs) |-> evs[k].f ]

(***************************************************************************)
(* Initial states.  The two stores start in one of three conditions: no    *)
(* record was ever synced; every record was synced by earlier runs; or     *)
(* record 1 was synced and records 2 and 3 carry a hand-entered key only   *)
(* and version only.                                                       *)
(***************************************************************************)
Scenarios == { "first", "resync", "partial" }

\* series ids of the records of a table of n videos
SeriesIdsOf(n) ==
  { SeriesIdOf(SeriesOf(k)) : k \in { x \in 1..n : SeriesOf(x) # "" } }

\* the collection an earlier run created for a series id, in the order of
\* SeriesIds
SyncedCollection(id) ==
  IF id = "recSeriesLectures1" THEN CollectionKeyPool[1] ELSE CollectionKeyPool[2]

\* the library item an earlier run created for record n
SyncedItem(n, ver) ==
  [ key     |-> ItemKeyPool[n],
    version |-> ver,
    data    |-> Payload(
                  [ recordId |-> RecordId(n), topic |-> TopicOf(n),
                    series |-> SeriesOf(n), presenters |-> PresentersOf(n) ],
                  TemplateVideoRecording) ]

InitStores(scenario, n) ==
  /\ esovdbVideos =
       [ k \in 1..n |->
           CASE scenario = "resync" -> VideoRow(k, ItemKeyPool[k], 3)
             [] scenario = "partial" /\ k = 1 -> VideoRow(k, ItemKeyPool[1], 1)
             [] scenario = "partial" /\ k = 2 -> VideoRow(k, "HANDKEY2", 0)
             [] scenario = "partial" /\ k = 3 -> VideoRow(k, "", 7)
             [] OTHER -> VideoRow(k, "", 0) ]
  /\ esovdbSeries =
       [ id \in SeriesIds |->
           IF scenario = "resync" /\ id \in SeriesIdsOf(n)
           THEN SyncedCollection(id) ELSE "" ]
  /\ zotItems =
       CASE scenario = "resync" -> [ k \in 1..n |-> SyncedItem(k, 3) ]
         [] scenario = "partial" -> << SyncedItem(1, 1) >>
         [] OTHER -> << >>
  /\ zotCollections =
       IF scenario = "resync"
       THEN [ k \in 1..Cardinality(SeriesIdsOf(n)) |->
                [ key |-> CollectionKeyPool[k],
                  name |-> IF k = 1 THEN "Lectures on Geology" ELSE "Field Trips",
                  parentCollection |-> collections.series ] ]
       ELSE << >>
  /\ zotVersion =
       CASE scenario = "resync" -> 3
         [] scenario = "partial" -> 1
         [] OTHER -> 0

\* the state of main before program.parse
InitRun(a) ==
  /\ argv = a
  /\ program = ProgramParse(a)
  /\ pc = "start"
  /\ videos = << >>
  /\ template = Undefined
  /\ res = << >>
  /\ items = << >>
  /\ i = 0
  /\ totalSuccessful = 0
  /\ totalUnchanged = 0
  /\ totalFailed = 0
  /\ posted = << >>
  /\ writeFileErr = FALSE
  /\ exitCode = -1
  /\ errors = << >>
  /\ payloads = << >>
  /\ calls = << >>

Init ==
  /\ \E a \in Argvs : InitRun(a)
  /\ \E scenario \in Scenarios : InitStores(scenario, MaxVideos)
  /\ run = 1
  /\ videosJson = [ written |-> FALSE, content |-> << >> ]
  /\ failedJson = [ written |-> FALSE, content |-> << >> ]

(***************************************************************************)
(* main.                                                                   *)
(***************************************************************************)
\* main up to the template request: program.parse, getVideos, the test of
\* the records and the raw dump
GetVideos ==
  /\ pc = "start"
  /\ \E response \in ListResponses(Params(program)), wrote \in BOOLEAN :
       LET r == getVideos(response)
           branch == MainBranch(r.value, program)
       IN /\ (~wrote) => branch = "dump"
          /\ videos' = r.value
          /\ calls' = Append(calls, Call("GET videos/query", << Params(program) >>,
                                         response.ok, response.data))
          /\ CASE branch = "dump" ->
                    \* fs.writeFileSync, then process.exit() or, when the
                    \* write throws, process.exit(1)
                    /\ videosJson' = IF wrote
                                     THEN [ written |-> TRUE, content |-> r.value ]
                                     ELSE videosJson
                    /\ errors' = errors \o r.errors \o
                                 IF wrote THEN << >> ELSE << "writeFileSync failed" >>
                    /\ exitCode' = IF wrote THEN 0 ELSE 1
                    /\ pc' = "exited"
               [] branch = "sync" ->
                    /\ pc' = "template"
                    /\ errors' = errors \o r.errors
                    /\ UNCHANGED << videosJson, exitCode >>
               [] OTHER ->
                    \* throw new Error('No videos retrieved ...'), outer catch
                    /\ errors' = errors \o r.errors \o
                                 << "No videos retrieved from the ESOVBD." >>
                    /\ exitCode' = 0
                    /\ pc' = "exited"
                    /\ UNCHANGED videosJson
  /\ UNCHANGED << argv, program, run, storeVars, libraryVars, template, res,
                  loopVars, failedJson, writeFileErr, payloads >>

\* const template = await getTemplate(), then queueAsync starts
GetTemplate ==
  /\ pc = "template"
  /\ \E response \in TemplateResponses :
       LET r == getTemplate(response)
       IN /\ template' = r.value
          /\ errors' = errors \o r.errors
          /\ calls' = Append(calls, Call("GET items/new", << >>, response.ok, response.data))
  /\ res' = << >>
  /\ pc' = "mapping"
  /\ UNCHANGED << argv, program, run, storeVars, libraryVars, videos, loopVars,
                  videosJson, failedJson, writeFileErr, exitCode, payloads >>

\* queueAsync: the formatItems call in flight is resolved and its payload
\* is pushed to res, the next one is called; after the last one main
\* initialises the submission loop
FormatItems ==
  /\ pc = "mapping"
  /\ LET video == videos[QueueOrder(Len(videos), "resolved")[Len(res) + 1] + 1]
     IN \E outcome \in FormatOutcomes(video) :
          LET r == formatItems(video, template, outcome,
                               CollectionKeyPool[Len(zotCollections) + 1])
              done == Len(res) + 1 = Len(videos)
          IN /\ res' = Append(res, r.payload)
             /\ calls' = calls \o r.calls
             /\ errors' = errors \o r.errors
             /\ zotCollections' = zotCollections \o r.created
             /\ zotVersion' = zotVersion + Len(r.created)
             /\ esovdbSeries' = EsovdbUpdateSeries(esovdbSeries, r.synced)
             /\ items' = IF done THEN Append(res, r.payload) ELSE items
             /\ payloads' = IF done THEN Append(res, r.payload) ELSE payloads
             /\ pc' = IF done THEN "posting" ELSE "mapping"
  /\ i' = 0
  /\ totalSuccessful' = 0
  /\ totalUnchanged' = 0
  /\ totalFailed' = 0
  /\ posted' = << >>
  /\ UNCHANGED << argv, program, run, esovdbVideos, zotItems, videos, template,
                  videosJson, failedJson, writeFileErr, exitCode >>

\* the exit code of a process whose main has run to its end: when the
\* callback of a failed write is due it throws outside every try block,
\* and the uncaught exception makes the exit code 1
ExitCodeAtEnd(err) ==
  IF err THEN 1 ELSE 0

\* one iteration of while (items.length) up to its wait: splice, postItems,
\* the totals, and i++ when there is no wait.  wrote is the outcome of the
\* fs.writeFile postItems starts when items failed.  The history and i
\* follow the loop for MaxPosts iterations, which are more than a loop that
\* removes an item in each iteration can make; a loop that goes on after
\* them goes on with i and the history as they are.
PostItems ==
  /\ pc = "posting"
  /\ Len(items) > 0
  /\ LET chunk == SpliceRemoved(items, program.chunkSize)
         kept == SpliceKept(items, program.chunkSize)
         counted == i < MaxPosts
     IN \E response \in PostItemsResponses(chunk), wrote \in BOOLEAN :
          LET r == postItems(chunk, response)
          IN /\ (~wrote) => r.failedJson # << >>
             /\ zotItems' = response.items
             /\ zotVersion' = response.version
             /\ items' = kept
             /\ failedJson' = IF r.failedJson = << >> \/ ~wrote THEN failedJson
                              ELSE [ written |-> TRUE, content |-> r.failedJson ]
             /\ writeFileErr' = (writeFileErr \/ ~wrote)
             /\ IF r.value = Undefined
                THEN \* let { successful, unchanged, failed } = undefined
                     \* throws, outer catch
                     /\ calls' = calls \o r.calls
                     /\ errors' = errors \o r.errors \o << "TypeError" >>
                     /\ exitCode' = ExitCodeAtEnd(writeFileErr)
                     /\ pc' = "exited"
                     /\ UNCHANGED << i, totalSuccessful, totalUnchanged,
                                     totalFailed, posted >>
                ELSE /\ posted' = AddPosted(posted, r.value.successful)
                     /\ totalSuccessful' = AddTotal(totalSuccessful, r.value.successful)
                     /\ totalUnchanged' = AddTotal(totalUnchanged, r.value.unchanged)
                     /\ totalFailed' = AddTotal(totalFailed, r.value.failed)
                     /\ calls' = IF counted THEN calls \o r.calls ELSE calls
                     /\ errors' = errors \o r.errors
                     /\ IF SleepCalls(kept, program) # << >>
                        THEN pc' = "sleeping" /\ i' = i
                        ELSE pc' = pc /\ i' = IF counted THEN i + 1 ELSE i
                     /\ UNCHANGED exitCode
  /\ UNCHANGED << argv, program, run, storeVars, zotCollections, videos,
                  template, res, videosJson, payloads >>

\* the end of an iteration that waits: await sleep(program.waitSecs) is
\* over, i++
Sleep ==
  /\ pc = "sleeping"
  /\ calls' = IF i < MaxPosts THEN calls \o SleepCalls(items, program) ELSE calls
  /\ i' = IF i < MaxPosts THEN i + 1 ELSE i
  /\ pc' = "posting"
  /\ UNCHANGED << argv, program, run, storeVars, libraryVars, videos, template,
                  res, items, totalSuccessful, totalUnchanged, totalFailed,
                  posted, videosJson, failedJson, writeFileErr, exitCode,
                  errors, payloads >>

\* after the loop: the summary and the update of the videos table
Reconcile ==
  /\ pc = "posting"
  /\ Len(items) = 0
  /\ IF HasPosted(posted)
     THEN LET itemsToSync == ItemsToSync(posted)
          IN IF \E k \in 1..Len(itemsToSync) : itemsToSync[k].id = << >>
             THEN \* null[0] throws, outer catch
                  /\ errors' = Append(errors, "TypeError")
                  /\ UNCHANGED << calls, esovdbVideos >>
             ELSE \E ok \in BOOLEAN :
                    LET u == updateTable(itemsToSync, "videos", ok)
                    IN /\ calls' = calls \o u.calls
                       /\ esovdbVideos' =
                            IF ok THEN EsovdbUpdateVideos(esovdbVideos, itemsToSync)
                            ELSE esovdbVideos
                       /\ errors' = errors \o u.errors \o
                                    IF u.value # Undefined /\ Len(u.value) > 0
                                    THEN << >>
                                    ELSE << "Error syncing items with the ESOVBD." >>
     ELSE UNCHANGED << calls, esovdbVideos, errors >>
  /\ exitCode' = ExitCodeAtEnd(writeFileErr)
  /\ pc' = "exited"
  /\ UNCHANGED << argv, program, run, esovdbSeries, libraryVars, videos,
                  template, res, loopVars, videosJson, failedJson, writeFileErr,
                  payloads >>

\* postItems: the callback of fs.writeFile('failed.json', ...) is called
\* with an error while main waits in the loop.  Its throw is outside every
\* try block of the program: the process ends on the uncaught exception.
WriteFileCallback ==
  /\ pc \in { "posting", "sleeping" }
  /\ writeFileErr
  /\ errors' = Append(errors, "An error occured while writing JSON Object to File.")
  /\ exitCode' = 1
  /\ pc' = "crashed"
  /\ UNCHANGED << argv, program, run, storeVars, libraryVars, videos, template,
                  res, loopVars, videosJson, failedJson, writeFileErr, payloads,
                  calls >>

Next ==
  \/ GetVideos
  \/ GetTemplate
  \/ FormatItems
  \/ PostItems
  \/ Sleep
  \/ Reconcile
  \/ WriteFileCallback

Spec == Init /\ [][Next]_vars

\* one invocation whose process keeps running: every await of main is
\* answered, and a callback that is due is called
SpecLive == Init /\ [][Next]_vars /\ WF_vars(Next)

\* the steps of an invocation whose payloads are fewer than the chunk size:
\* the loop has one iteration and does not wait
NextOneChunk ==
  \/ GetVideos
  \/ GetTemplate
  \/ FormatItems
  \/ PostItems
  \/ Reconcile
  \/ WriteFileCallback

(***************************************************************************)
(* A sequence of invocations of the CLI over the same two stores, starting *)
(* with stores in which nothing was ever synced.                           *)
(***************************************************************************)
ResyncArgvs ==
  [ c : { {0}, {1} }, m : { {} }, j : { FALSE }, p : { {} }, d : { << >> } ]

InitResync ==
  /\ \E a \in ResyncArgvs : InitRun(a)
  /\ InitStores("first", ResyncVideos)
  /\ run = 1
  /\ videosJson = [ written |-> FALSE, content |-> << >> ]
  /\ failedJson = [ written |-> FALSE, content |-> << >> ]

\* the CLI is invoked again after the process of the last invocation ended
NextRun ==
  /\ pc \in { "exited", "crashed" }
  /\ run < MaxRuns
  /\ run' = run + 1
  /\ \E a \in ResyncArgvs :
       /\ argv' = a
       /\ program' = ProgramParse(a)
  /\ pc' = "start"
  /\ videos' = << >>
  /\ template' = Undefined
  /\ res' = << >>
  /\ items' = << >>
  /\ i' = 0
  /\ totalSuccessful' = 0
  /\ totalUnchanged' = 0
  /\ totalFailed' = 0
  /\ posted' = << >>
  /\ writeFileErr' = FALSE
  /\ exitCode' = -1
  /\ errors' = << >>
  /\ payloads' = << >>
  /\ calls' = << >>
  /\ UNCHANGED << storeVars, libraryVars, videosJson, failedJson >>

NextResync ==
  \/ GetVideos
  \/ GetTemplate
  \/ FormatItems
  \/ PostItems
  \/ Sleep
  \/ Reconcile
  \/ WriteFileCallback
  \/ NextRun

SpecResync == InitResync /\ [][NextResync]_vars

(***************************************************************************)
(* One invocation with any of the date options and page sizes, over a      *)
(* table in which nothing was ever synced.                                 *)
(***************************************************************************)
QueryArgvs ==
  [ c : { {} },
    m : { {} },
    j : BOOLEAN,
    p : { {} } \cup { {a} : a \in PageSizeArgs },
    d : DateFlags ]

InitQuery ==
  /\ \E a \in QueryArgvs : InitRun(a)
  /\ InitStores("first", QueryVideos)
  /\ run = 1
  /\ videosJson = [ written |-> FALSE, content |-> << >> ]
  /\ failedJson = [ written |-> FALSE, content |-> << >> ]

SpecQuery == InitQuery /\ [][NextOneChunk]_vars

(***************************************************************************)
(* One invocation over a table of one record that has any topic, any list  *)
(* of presenters and a series or none.                                     *)
(***************************************************************************)
PresenterKinds ==
  { PresenterBoth, PresenterUnknown, PresenterFirstOnly, PresenterLastOnly,
    PresenterNoName, PresenterEmptyNames }

PresenterLists ==
  UNION { [ 1..n -> PresenterKinds ] : n \in 0..MaxPresenters }

\* no topic, two topics of the table, one that is not in it
TopicKinds == { "", "The Anthropocene", "Geo-Archaeology", "Speleology" }

FormatArgv == [ c |-> {}, m |-> {}, j |-> FALSE, p |-> {}, d |-> << >> ]

InitFormat ==
  /\ InitRun(FormatArgv)
  /\ \E t \in TopicKinds, ps \in PresenterLists, s \in { "", SeriesOf(2) } :
       esovdbVideos = << [ topic |-> t, series |-> s, presenters |-> ps,
                           zoteroKey |-> "", zoteroVersion |-> 0 ] >>
  /\ esovdbSeries = [ id \in SeriesIds |-> "" ]
  /\ zotItems = << >>
  /\ zotCollections = << >>
  /\ zotVersion = 0
  /\ run = 1
  /\ videosJson = [ written |-> FALSE, content |-> << >> ]
  /\ failedJson = [ written |-> FALSE, content |-> << >> ]

SpecFormat == InitFormat /\ [][NextOneChunk]_vars

(***************************************************************************)
(* The chunk-size parser and the splice of the submission loop, applied to *)
(* any chunk-size argument and to payload lists longer than a chunk.  A    *)
(* payload is represented by its index in the list.                        *)
(***************************************************************************)
WideChunkSizeArgs == { 0 - 1, 0, 1, 7, 49, 50, 51, 60, 1000 }

ChunkArgvs ==
  [ c : { {} } \cup { {a} : a \in WideChunkSizeArgs },
    m : { {} }, j : { FALSE }, p : { {} }, d : { << >> } ]

InitChunk ==
  /\ \E a \in ChunkArgvs :
       /\ argv = a
       /\ program = ProgramParse(a)
  /\ \E n \in 0..MaxPayloads :
       /\ items = [ k \in 1..n |-> k ]
       /\ payloads = [ k \in 1..n |-> k ]
  /\ pc = "posting"
  /\ run = 1
  /\ esovdbVideos = << >>
  /\ esovdbSeries = [ id \in SeriesIds |-> "" ]
  /\ zotItems = << >>
  /\ zotCollections = << >>
  /\ zotVersion = 0
  /\ videos = << >>
  /\ template = Undefined
  /\ res = << >>
  /\ i = 0
  /\ totalSuccessful = 0
  /\ totalUnchanged = 0
  /\ totalFailed = 0
  /\ posted = << >>
  /\ videosJson = [ written |-> FALSE, content |-> << >> ]
  /\ failedJson = [ written |-> FALSE, content |-> << >> ]
  /\ writeFileErr = FALSE
  /\ exitCode = -1
  /\ errors = << >>
  /\ calls = << >>

\* while (items.length) { ... postItems(items.splice(0, program.chunkSize))
\* ... i++ }: the argument of each postItems call
SpliceChunk ==
  /\ pc = "posting"
  /\ Len(items) > 0
  /\ i < MaxSplices
  /\ items' = SpliceKept(items, program.chunkSize)
  /\ calls' = Append(calls, Call("POST items",
                                 SpliceRemoved(items, program.chunkSize),
                                 TRUE, << >>))
  /\ i' = i + 1
  /\ UNCHANGED << argv, program, run, pc, storeVars, libraryVars, videos,
                  template, res, totalSuccessful, totalUnchanged, totalFailed,
                  posted, videosJson, failedJson, writeFileErr, exitCode,
                  errors, payloads >>

SpecChunk == InitChunk /\ [][SpliceChunk]_vars

(***************************************************************************)
(* Reading the history of requests.                                        *)
(***************************************************************************)
CallsOf(op) == SelectSeq(calls, LAMBDA c : c.op = op)

PostCalls == CallsOf("POST items")

SleepCalled == CallsOf("sleep")

UpdateVideosCalls == CallsOf("POST videos/update")

\* requests to the Zotero API
TargetOps == { "GET items/new", "POST zotero/collections", "POST items" }

\* requests that write to the ESOVDB
SourceUpdateOps == { "POST videos/update", "POST series/update" }

RECURSIVE Flatten(_)
Flatten(seqs) ==
  IF seqs = << >> THEN << >> ELSE Head(seqs) \o Flatten(Tail(seqs))

Bodies(cs) == [ k \in 1..Len(cs) |-> cs[k].body ]

Ceil(n, c) == (n + c - 1) \div c

AllPostsSucceeded == \A k \in 1..Len(PostCalls) : PostCalls[k].ok

\* the submission loop was left through its condition
LoopCompleted ==
  pc = "exited" /\ payloads # << >> /\ items = << >> /\ AllPostsSucceeded

\* number of payloads POSTed before the k-th POST
Offset(k) == Len(Flatten(Bodies(SubSeq(PostCalls, 1, k - 1))))

\* the update entries the successful items of the k-th and later POSTs call
\* for: the id of the record each item was mapped from, with the key and
\* the version of the response
RECURSIVE ExpectedSync(_)
ExpectedSync(k) ==
  IF k > Len(PostCalls) THEN << >>
  ELSE LET c == PostCalls[k]
           succ == IF c.ok THEN c.data.successful ELSE << >>
           idxs == ObjectValues([ x \in DOMAIN succ |-> x ])
       IN [ j \in 1..Len(idxs) |->
              [ id     |-> videos[Offset(k) + idxs[j] + 1].recordId,
                fields |-> [ f \in { "Zotero Key", "Zotero Version" } |->
                               IF f = "Zotero Key" THEN succ[idxs[j]].key
                               ELSE succ[idxs[j]].version ] ] ]
          \o ExpectedSync(k + 1)

\* number of items of the library that were built from record n
ItemsFor(lib, n) ==
  Cardinality({ x \in 1..Len(lib) :
                  MatchRecordId(lib[x].data.archiveLocation) = RecordId(n) })

Synced(n) ==
  /\ TruthyStr(esovdbVideos[n].zoteroKey)
  /\ TruthyNum(esovdbVideos[n].zoteroVersion)

(***************************************************************************)
(* Properties.                                                             *)
(***************************************************************************)

\* C1: for a chunk size c in 1..50, the bodies POSTed to 'items' are
\* contiguous slices of the payload list of 1 to c payloads each; followed
\* by the payloads still waiting they are the payload list, in order; and
\* when every POST succeeded and the run has ended there are ceil(|P|/c) of
\* them and nothing is left waiting.
C1_ChunksPartitionPayloads ==
  (payloads # << >> /\ program.chunkSize \in 1..MaxChunkSize) =>
    LET bodies == Bodies(PostCalls)
    IN /\ Flatten(bodies) \o items = payloads
       /\ \A k \in 1..Len(bodies) :
            /\ Len(bodies[k]) \in 1..program.chunkSize
            /\ bodies[k] = SubSeq(payloads, Offset(k) + 1, Offset(k) + Len(bodies[k]))
       /\ (pc = "exited" /\ AllPostsSucceeded) =>
            /\ items = << >>
            /\ Len(bodies) = Ceil(Len(payloads), program.chunkSize)

C1_Witness ==
  /\ LoopCompleted
  /\ program.chunkSize = 2
  /\ Len(payloads) = 3
  /\ Len(PostCalls) = 2
  /\ Len(PostCalls[2].body) = 1

\* C2: a run that got its template, POSTed k >= 1 chunks with success and
\* has ended has waited exactly k-1 times.
C2_WaitsBetweenChunks ==
  (LoopCompleted /\ template # Undefined /\ Len(PostCalls) >= 1) =>
    Len(SleepCalled) = Len(PostCalls) - 1

\* C3: at most one update of the videos table is requested in a run; when
\* it is, it has one entry per successful item of all the responses, in
\* submission order, with the id of the record the item was mapped from and
\* the key and version of the response; and it is requested whenever the
\* loop was completed and some item was successful.
C3_UpdateIsTheSuccessfulItems ==
  /\ Len(UpdateVideosCalls) <= 1
  /\ \A k \in 1..Len(UpdateVideosCalls) :
       /\ UpdateVideosCalls[k].body = ExpectedSync(1)
       /\ UpdateVideosCalls[k].body # << >>
  /\ (LoopCompleted /\ ExpectedSync(1) # << >>) => Len(UpdateVideosCalls) = 1

C3_Witness ==
  /\ LoopCompleted
  /\ Len(PostCalls) = 2
  /\ Len(UpdateVideosCalls) = 1
  /\ Len(UpdateVideosCalls[1].body) = 2
  /\ totalFailed = 1
  /\ DOMAIN PostCalls[1].data.successful = {1}
  /\ DOMAIN PostCalls[2].data.successful = {0}

\* C4: in one run that got its template at most one collection-create
\* request is sent for a series.
C4_OneCreatePerSeries ==
  template # Undefined =>
  \A name \in { SeriesOf(n) : n \in 1..MaxVideos } :
    Cardinality({ k \in 1..Len(calls) :
                    /\ calls[k].op = "POST zotero/collections"
                    /\ calls[k].body[1].name = name }) <= 1

\* C5: once the videos table holds a key and a version for a record, a
\* payload submitted for that record carries that key and that version,
\* the key is the key of an item the library built from that record, and
\* no request adds another item built from that record to the library.
C5_ResyncIsUpdate ==
  [][ \A n \in 1..Len(esovdbVideos) :
        Synced(n) =>
          /\ \E x \in 1..Len(zotItems) :
               /\ zotItems[x].key = esovdbVideos[n].zoteroKey
               /\ MatchRecordId(zotItems[x].data.archiveLocation) = RecordId(n)
          /\ ItemsFor(zotItems', n) = ItemsFor(zotItems, n)
          /\ \A k \in (Len(calls) + 1)..Len(calls') :
               calls'[k].op = "POST items" =>
                 \A b \in 1..Len(calls'[k].body) :
                   MatchRecordId(calls'[k].body[b].archiveLocation) = RecordId(n) =>
                     /\ "key" \in DOMAIN calls'[k].body[b]
                     /\ "version" \in DOMAIN calls'[k].body[b]
                     /\ calls'[k].body[b].key = esovdbVideos[n].zoteroKey
                     /\ calls'[k].body[b].version = esovdbVideos[n].zoteroVersion
    ]_vars

C5_Witness ==
  /\ run = 2
  /\ Len(PostCalls) = 1
  /\ Len(PostCalls[1].body) = 1
  /\ "key" \in DOMAIN PostCalls[1].body[1]
  /\ PostCalls[1].ok
  /\ 0 \in DOMAIN PostCalls[1].data.successful
  /\ ItemsFor(zotItems, 1) = 1
  /\ Len(UpdateVideosCalls) = 1

\* C6: a payload formatItems returned has key and version or neither, has
\* them exactly when the record has a key and a version, and then they are
\* the record's.
C6_KeyAndVersionTogether ==
  \A k \in 1..Len(res) :
    LET p == res[k]
        v == videos[k]
    IN /\ ("key" \in DOMAIN p) <=> ("version" \in DOMAIN p)
       /\ ("key" \in DOMAIN p) <=>
            (TruthyStr(v.zoteroKey) /\ TruthyNum(v.zoteroVersion))
       /\ ("key" \in DOMAIN p) =>
            (p.key = v.zoteroKey /\ p.version = v.zoteroVersion)

C6_Witness ==
  /\ Len(res) = 3
  /\ "key" \in DOMAIN res[1]
  /\ TruthyStr(videos[2].zoteroKey) /\ "key" \notin DOMAIN res[2]
  /\ TruthyNum(videos[3].zoteroVersion) /\ "version" \notin DOMAIN res[3]
  /\ template = Undefined

\* C7: a POST to 'items' that failed is the last request of its run: no
\* later chunk is POSTed, the chunk is not POSTed again, the videos table
\* is not updated, and the run has ended.
C7_PostFailureAborts ==
  \A k \in 1..Len(calls) :
    (calls[k].op = "POST items" /\ ~calls[k].ok) =>
      /\ k = Len(calls)
      /\ pc = "exited"
      /\ UpdateVideosCalls = << >>

C7_Witness ==
  /\ pc = "exited"
  /\ Len(PostCalls) = 2
  /\ ~PostCalls[2].ok
  /\ Len(posted) > 0
  /\ \A n \in 1..Len(esovdbVideos) : ~Synced(n)

\* C8: a template request that failed or returned an empty body is the
\* last request of its run and no record is mapped after it.
C8_TemplateFailureAborts ==
  \A k \in 1..Len(calls) :
    (calls[k].op = "GET items/new" /\ (~calls[k].ok \/ calls[k].data = Undefined)) =>
      /\ k = Len(calls)
      /\ res = << >>
      /\ payloads = << >>

\* C9: a list request that failed or returned no record is the only
\* request of its run; the run has ended with an error message, and
\* videos.json was not written, with -j or without.
C9_NoVideosAborts ==
  \A k \in 1..Len(calls) :
    (calls[k].op = "GET videos/query" /\ (~calls[k].ok \/ calls[k].data = << >>)) =>
      /\ Len(calls) = 1
      /\ pc = "exited"
      /\ errors # << >>
      /\ ~videosJson.written
      /\ res = << >>

C9_Witness ==
  /\ pc = "exited"
  /\ program.json
  /\ Len(calls) = 1
  /\ calls[1].ok
  /\ calls[1].data = << >>

\* C10: with -j the only request of the run is the list request; when it
\* returned records the run ends there, and unless the write failed
\* (exit code 1) videos.json holds the records of the response, in order.
C10_RawDumpOnly ==
  program.json =>
    /\ \A k \in 1..Len(calls) : k = 1 /\ calls[k].op = "GET videos/query"
    /\ \A k \in 1..Len(calls) :
         (calls[k].ok /\ calls[k].data # << >>) =>
           /\ pc = "exited"
           /\ exitCode \in { 0, 1 }
           /\ exitCode = 0 =>
                videosJson = [ written |-> TRUE, content |-> calls[k].data ]
           /\ res = << >>

C10_Witness ==
  /\ program.json
  /\ pc = "exited"
  /\ exitCode = 0
  /\ Len(calls) = 1
  /\ Len(calls[1].data) = 3
  /\ videosJson.written
  /\ Len(videosJson.content) = 3

\* the date option key was given on the command line
Given(key) == \E k \in 1..Len(argv.d) : argv.d[k].key = key

\* the value of the last occurrence of a date option on the command line
LastGiven(key) ==
  LET k == CHOOSE x \in 1..Len(argv.d) :
             /\ argv.d[x].key = key
             /\ \A y \in (x + 1)..Len(argv.d) : argv.d[y].key # key
  IN ParseDateOption(argv.d[k].date)

\* the query of the list request
QueryOf(c) == c.body[1]

\* C11: the query of the list request never carries both createdAfter and
\* modifiedAfter; when both options are given it carries exactly one of
\* them, when one is given it carries that one, when none is given it
\* carries none; a filter it carries has the parsed value of the option.
C11_AtMostOneDateFilter ==
  \A k \in 1..Len(calls) :
    calls[k].op = "GET videos/query" =>
      LET q == QueryOf(calls[k])
          sent == DateOptionKeys \cap DOMAIN q
      IN /\ Cardinality(sent) <= 1
         /\ (Given("createdAfter") /\ Given("modifiedAfter")) => Cardinality(sent) = 1
         /\ (Given("createdAfter") /\ ~Given("modifiedAfter")) => sent = { "createdAfter" }
         /\ (Given("modifiedAfter") /\ ~Given("createdAfter")) => sent = { "modifiedAfter" }
         /\ (~Given("createdAfter") /\ ~Given("modifiedAfter")) => sent = {}
         /\ \A key \in sent : q[key] = LastGiven(key)

C11_Witness ==
  /\ Len(argv.d) = 2
  /\ argv.d[1].key = "modifiedAfter"
  /\ argv.d[2].key = "createdAfter"
  /\ Len(calls) >= 1
  /\ calls[1].op = "GET videos/query"
  /\ DOMAIN QueryOf(calls[1]) = { "createdAfter", "pageSize" }
  /\ QueryOf(calls[1]).createdAfter = NowLocaleString

IsUnknown(presenter) ==
  "lastName" \in DOMAIN presenter /\ presenter.lastName = "Unknown"

\* C12: in a run that got its template, the creators of a payload are one
\* entry per presenter whose lastName is not 'Unknown', in the presenters'
\* order, and no entry is undefined.
C12_UnknownPresentersExcluded ==
  template # Undefined =>
    \A k \in 1..Len(res) :
      LET known == SelectSeq(videos[k].presenters, LAMBDA p : ~IsUnknown(p))
          creators == res[k].creators
      IN /\ Len(creators) = Len(known)
         /\ \A j \in 1..Len(creators) : creators[j] # Undefined

\* a name part of a presenter, the empty string when it is missing
NamePart(presenter, f) ==
  IF f \in DOMAIN presenter THEN presenter[f] ELSE ""

\* C13: in a run that got its template, the entry made for a presenter
\* whose lastName is not 'Unknown' has, when a name part is missing or
\* empty, the fields creatorType and name only, name being the parts that
\* are present (the empty string when there is none); and when both parts
\* are present the fields creatorType, firstName and lastName only.
C13_NameOrSplitNames ==
  template # Undefined =>
    \A k \in 1..Len(res) :
      \A j \in 1..Len(videos[k].presenters) :
        LET p == videos[k].presenters[j]
            c == res[k].creators[j]
        IN ~IsUnknown(p) =>
             IF NamePart(p, "firstName") = "" \/ NamePart(p, "lastName") = ""
             THEN /\ DOMAIN c = { "creatorType", "name" }
                  /\ c.name = NamePart(p, "firstName") \o NamePart(p, "lastName")
             ELSE /\ DOMAIN c = { "creatorType", "firstName", "lastName" }
                  /\ c.firstName = p.firstName
                  /\ c.lastName = p.lastName

\* C14: the payload of a record without a series has the collections list
\* << id >> when the topics table maps the record's topic to id, and the
\* empty list when the topic is not a key of the table; and mapping records
\* without series writes no error message and ends no run.
C14_TopicIsZeroOrOneCollection ==
  /\ \A k \in 1..Len(res) :
       videos[k].series = "" =>
         /\ Len(res[k].collections) <= 1
         /\ res[k].collections =
              IF videos[k].topic \in DOMAIN topics
              THEN << topics[videos[k].topic] >> ELSE << >>
  /\ ( /\ res # << >>
       /\ template # Undefined
       /\ PostCalls = << >>
       /\ \A k \in 1..Len(res) : videos[k].series = "" )
     => (errors = << >> /\ exitCode = 0 - 1 /\ pc \in { "mapping", "posting" })

C14_Witness ==
  /\ pc = "posting"
  /\ Len(res) = 1
  /\ videos[1].series = ""
  /\ videos[1].topic = "Speleology"
  /\ res[1].collections = << >>
  /\ template # Undefined
  /\ errors = << >>

\* number of items the responses of the successful POSTs list under field
RECURSIVE CountListed(_, _)
CountListed(cs, field) ==
  IF cs = << >> THEN 0
  ELSE (IF Head(cs).ok THEN Cardinality(DOMAIN Head(cs).data[field]) ELSE 0)
       + CountListed(Tail(cs), field)

\* C15: each of the three totals is the number of items the responses so
\* far list as successful, unchanged and failed; and when the loop has
\* submitted every payload and every POST succeeded the three totals add up
\* to the number of payloads.
C15_TotalsAreSums ==
  payloads # << >> =>
    /\ totalSuccessful = CountListed(PostCalls, "successful")
    /\ totalUnchanged = CountListed(PostCalls, "unchanged")
    /\ totalFailed = CountListed(PostCalls, "failed")
    /\ (items = << >> /\ AllPostsSucceeded) =>
         totalSuccessful + totalUnchanged + totalFailed = Len(payloads)

C15_Witness ==
  /\ LoopCompleted
  /\ Len(PostCalls) = 2
  /\ Len(payloads) = 3
  /\ totalSuccessful = 1
  /\ totalUnchanged = 1
  /\ totalFailed = 1

\* the run met one of the fatal conditions
FatalAbort ==
  \/ \E k \in 1..Len(calls) :
       /\ calls[k].op = "GET videos/query"
       /\ (~calls[k].ok \/ calls[k].data = << >>)
  \/ \E k \in 1..Len(calls) :
       /\ calls[k].op = "GET items/new"
       /\ (~calls[k].ok \/ calls[k].data = Undefined)
  \/ \E k \in 1..Len(calls) :
       /\ calls[k].op \in { "POST items", "POST videos/update" }
       /\ ~calls[k].ok

\* C16: a process that has ended has the exit code 0 when it wrote the raw
\* dump or completed the run, and a non-zero exit code when it met a fatal
\* condition: a failed or empty list request, a failed template request, a
\* failed POST of a chunk, a failed update of the videos table.
C16_ExitCodeTellsAbort ==
  pc = "exited" =>
    /\ FatalAbort => exitCode # 0
    /\ (~FatalAbort /\ ~writeFileErr) => exitCode = 0

\* C17: the chunk size the parser yields is at most 50, with and without
\* the option, and every body POSTed to 'items' has at most 50 payloads.
C17_AtMostFiftyPerPost ==
  /\ program.chunkSize <= 50
  /\ \A k \in 1..Len(PostCalls) : Len(PostCalls[k].body) <= 50

C17_Witness ==
  /\ argv.c = { 60 }
  /\ Len(payloads) = 52
  /\ items = << >>
  /\ Len(PostCalls) = 2
  /\ Len(PostCalls[1].body) = 50
  /\ Len(PostCalls[2].body) = 2

\* some response of a successful POST lists a failed item
SomeItemFailed ==
  \E k \in 1..Len(PostCalls) :
    PostCalls[k].ok /\ DOMAIN PostCalls[k].data.failed # {}

\* C18: when a run that got its template, with a chunk size of 1 to 50, in
\* which no request failed and a response listed failed items, has ended,
\* every payload was submitted and the successful items of all the chunks
\* were sent to the videos table.
C18_ItemFailuresDoNotHalt ==
  ( /\ pc \in { "exited", "crashed" }
    /\ template # Undefined
    /\ program.chunkSize \in 1..MaxChunkSize
    /\ payloads # << >>
    /\ \A k \in 1..Len(calls) : calls[k].ok
    /\ SomeItemFailed )
  => /\ items = << >>
     /\ ExpectedSync(1) # << >> =>
          /\ Len(UpdateVideosCalls) = 1
          /\ UpdateVideosCalls[1].body = ExpectedSync(1)

\* C19: a formatItems call whose collection-create request failed or
\* created nothing returns the payload of its record, with the topic
\* collection only; it sends no series update and the series table keeps
\* its content; the run goes on with the next record, or with the
\* submission of all the payloads after the last one.  createCollection
\* with a parent that is not in `collections` sends no request and returns
\* undefined.
C19_CreateFailureIsNotFatal ==
  /\ [](LET c == createCollection("Field Trips", "authors", "ok", CollectionKeyPool[1])
        IN c.value = Undefined /\ c.calls = << >> /\ c.created = << >>)
  /\ [][ (pc = "mapping" /\ Len(res') = Len(res) + 1) =>
           LET v == videos[Len(res')]
               p == res'[Len(res')]
               new == SubSeq(calls', Len(calls) + 1, Len(calls'))
               created == \E k \in 1..Len(new) :
                            /\ new[k].op = "POST zotero/collections"
                            /\ new[k].ok
                            /\ new[k].data # << >>
           IN (v.series # "" /\ v.zoteroSeries = "" /\ ~created) =>
                /\ p.collections = IF v.topic \in DOMAIN topics
                                   THEN << topics[v.topic] >> ELSE << >>
                /\ p.archiveLocation = ArchiveLocationPrefix \o v.recordId
                /\ \A k \in 1..Len(new) : new[k].op # "POST series/update"
                /\ esovdbSeries' = esovdbSeries
                /\ zotCollections' = zotCollections
                /\ exitCode' = 0 - 1
                /\ pc' = IF Len(res') = Len(videos) THEN "posting" ELSE "mapping"
                /\ pc' = "posting" => items' = res'
       ]_vars

C19_Witness ==
  /\ LoopCompleted
  /\ Len(payloads) = 3
  /\ \E k \in 1..Len(calls) : calls[k].op = "POST zotero/collections" /\ ~calls[k].ok
  /\ \E k \in 1..Len(calls) :
       /\ calls[k].op = "POST zotero/collections"
       /\ calls[k].ok
       /\ calls[k].data = << >>
  /\ \A k \in 1..Len(calls) : calls[k].op # "POST series/update"
  /\ Len(payloads[2].collections) = 1
  /\ payloads[3].collections = << >>
  /\ Len(Flatten(Bodies(PostCalls))) = 3

PlacesOf(chain, e, f) ==
  { k \in 1..Len(chain) : chain[k] = QueueEvent(e, f) }

\* the functions that were called and are not resolved after the first k
\* events of a chain
InFlight(chain, k, length) ==
  { f \in 0..(length - 1) :
      /\ \E a \in PlacesOf(chain, "call", f) : a <= k
      /\ ~ \E b \in PlacesOf(chain, "resolved", f) : b <= k }

\* the records among the first k whose formatItems asks for a collection
RECURSIVE SeriesToCreate(_)
SeriesToCreate(k) ==
  IF k = 0 THEN << >>
  ELSE SeriesToCreate(k - 1) \o
       IF TruthyStr(videos[k].series) /\ ~TruthyStr(videos[k].zoteroSeries)
       THEN << videos[k].series >> ELSE << >>

\* C21: queueAsync runs the mapping functions one after another.  For n >= 1
\* functions each one is called once, resolved once and its value pushed
\* once; function i + 1 is called only after the promise of function i is
\* resolved, so that at most one formatItems call is in flight; the values
\* are pushed in the order of the input.  In a run, the k-th payload of res
\* is the one of the k-th record, the requests for collections are made in
\* the order of the records, and the loop starts with one payload for each
\* record.
C21_QueueIsSequential ==
  Len(videos) >= 1 =>
    LET n == Len(videos)
        chain == queueAsync(n)
        creates == CallsOf("POST zotero/collections")
    IN /\ pc = "mapping" =>
            /\ \A f \in 0..(n - 1) :
                 /\ Cardinality(PlacesOf(chain, "call", f)) = 1
                 /\ Cardinality(PlacesOf(chain, "resolved", f)) = 1
                 /\ Cardinality(PlacesOf(chain, "push", f)) = 1
            /\ Len(chain) = 3 * n
            /\ \A f \in 0..(n - 2) :
                 \A a \in PlacesOf(chain, "resolved", f),
                    b \in PlacesOf(chain, "call", f + 1) : a < b
            /\ \A k \in 0..Len(chain) : Cardinality(InFlight(chain, k, n)) <= 1
            /\ QueueOrder(n, "push") = [ k \in 1..n |-> k - 1 ]
       /\ Len(res) <= n
       /\ \A k \in 1..Len(res) :
            res[k].archiveLocation = ArchiveLocationPrefix \o videos[k].recordId
       /\ Len(creates) = Len(SeriesToCreate(Len(res)))
       /\ \A k \in 1..Len(creates) :
            creates[k].body[1].name = SeriesToCreate(Len(res))[k]
       /\ pc = "posting" => (Len(res) = n /\ payloads = res)

\* three records are mapped, two of them with a request of their own
C21_Witness ==
  /\ pc = "posting"
  /\ Len(videos) = 3
  /\ Len(res) = 3
  /\ Len(CallsOf("POST zotero/collections")) = 2
  /\ Len(CallsOf("POST series/update")) >= 1

(***************************************************************************)
(* The order of the requests of a run.                                     *)
(***************************************************************************)
\* the stage of main a request belongs to
StageOf(op) ==
  CASE op = "GET videos/query" -> 1
    [] op = "GET items/new" -> 2
    [] op \in { "POST zotero/collections", "POST series/update" } -> 3
    [] op \in { "POST items", "sleep" } -> 4
    [] op = "POST videos/update" -> 5
    [] OTHER -> 0

\* C22: the requests of a run are made in the order of the stages: the list
\* request, the template request, the requests for collections and series,
\* the item POSTs, the update of the videos table.  No item is posted before
\* the last record is mapped, the videos table is updated only after the
\* response to the last chunk, and at most once in a run.
C22_StagesInOrder ==
  /\ \A a, b \in 1..Len(calls) :
       a < b => (StageOf(calls[a].op) > 0 /\ StageOf(calls[a].op) <= StageOf(calls[b].op))
  /\ Len(CallsOf("GET videos/query")) <= 1
  /\ Len(CallsOf("GET items/new")) <= 1
  /\ Len(UpdateVideosCalls) <= 1
  /\ calls # << >> => calls[1].op = "GET videos/query"
  /\ (\E k \in 1..Len(calls) : StageOf(calls[k].op) >= 3) =>
       CallsOf("GET items/new") # << >>
  /\ PostCalls # << >> => (Len(res) = Len(videos) /\ payloads = res)
  /\ UpdateVideosCalls # << >> =>
       /\ items = << >>
       /\ AllPostsSucceeded
       /\ calls[Len(calls)].op = "POST videos/update"
       /\ program.chunkSize >= 1 => Flatten(Bodies(PostCalls)) = payloads

\* a run with requests of all five stages and a wait between two chunks
C22_Witness ==
  /\ pc = "exited"
  /\ CallsOf("POST zotero/collections") # << >>
  /\ CallsOf("POST series/update") # << >>
  /\ Len(PostCalls) >= 2
  /\ SleepCalled # << >>
  /\ Len(UpdateVideosCalls) = 1

(***************************************************************************)
(* Series collections.                                                     *)
(***************************************************************************)
\* the record the next FormatItems step maps
NextVideo ==
  videos[Len(res) + 1]

\* the collections formatItems gives a payload for the topic of its record
TopicCollections(video) ==
  IF TruthyStr(TopicsGet(video.topic)) THEN << TopicsGet(video.topic) >>
  ELSE << >>

\* C23: for a record with a series whose zoteroSeries is set, formatItems
\* makes no request: no collection is created and the series table is not
\* updated.  The collections of its payload are the collection of the topic,
\* if the topic has one, followed by the collection of the series.
C23_KnownSeriesIsReused ==
  [][ ( /\ pc = "mapping"
        /\ Len(res') = Len(res) + 1
        /\ TruthyStr(NextVideo.series)
        /\ TruthyStr(NextVideo.zoteroSeries) )
      => /\ calls' = calls
         /\ zotCollections' = zotCollections
         /\ esovdbSeries' = esovdbSeries
         /\ res'[Len(res')].collections =
              TopicCollections(NextVideo) \o << NextVideo.zoteroSeries >> ]_vars

\* a payload whose collections are the one of its topic and the one of its
\* series, in a run that made no request for a collection
C23_Witness ==
  /\ pc = "posting"
  /\ \E k \in 1..Len(res) :
       /\ TruthyStr(videos[k].zoteroSeries)
       /\ TruthyStr(TopicsGet(videos[k].topic))
       /\ res[k].collections = << TopicsGet(videos[k].topic), videos[k].zoteroSeries >>
  /\ CallsOf("POST zotero/collections") = << >>
  /\ CallsOf("POST series/update") = << >>

\* the requests a step adds to the history
NewCalls ==
  SubSeq(calls', Len(calls) + 1, Len(calls'))

\* C24: for a record with a series whose zoteroSeries is not set,
\* formatItems first asks the library to create the collection.  It updates
\* the series table only after the library reported a created collection;
\* the update is for the record's seriesId and carries the id the library
\* returned, and that id is the last of the payload's collections, whether
\* the update succeeds or not.  Without a created collection there is no
\* update and the payload has the collection of the topic only.  In every
\* case the payload is pushed and the run goes on.
C24_CreateThenSyncSeries ==
  [][ ( /\ pc = "mapping"
        /\ Len(res') = Len(res) + 1
        /\ TruthyStr(NextVideo.series)
        /\ ~TruthyStr(NextVideo.zoteroSeries) )
      => /\ Len(NewCalls) >= 1
         /\ NewCalls[1].op = "POST zotero/collections"
         /\ NewCalls[1].body[1].name = NextVideo.series
         /\ pc' \in { "mapping", "posting" }
         /\ IF NewCalls[1].ok /\ Len(NewCalls[1].data) > 0
            THEN /\ Len(NewCalls) = 2
                 /\ NewCalls[2].op = "POST series/update"
                 /\ NewCalls[2].body =
                      << [ id     |-> NextVideo.seriesId,
                           fields |-> [ f \in { "Zotero Collection" } |->
                                          NewCalls[1].data[1] ] ] >>
                 /\ res'[Len(res')].collections =
                      TopicCollections(NextVideo) \o << NewCalls[1].data[1] >>
                 /\ NewCalls[2].ok =>
                      esovdbSeries'[NextVideo.seriesId] = NewCalls[1].data[1]
                 /\ ~NewCalls[2].ok => esovdbSeries' = esovdbSeries
            ELSE /\ Len(NewCalls) = 1
                 /\ res'[Len(res')].collections = TopicCollections(NextVideo)
                 /\ esovdbSeries' = esovdbSeries ]_vars

\* the update of the series table failed, the payload has the id of the
\* created collection and is submitted
C24_Witness ==
  /\ PostCalls # << >>
  /\ \E k \in 1..Len(calls) :
       /\ calls[k].op = "POST series/update"
       /\ ~calls[k].ok
       /\ \E n \in 1..Len(payloads) :
            /\ payloads[n].collections # << >>
            /\ payloads[n].collections[Len(payloads[n].collections)] =
                 calls[k].body[1].fields["Zotero Collection"]

(***************************************************************************)
(* The choice between the two date filters.                                *)
(***************************************************************************)
\* the place of the first occurrence of a date option on the command line
FirstPlace(key) ==
  CHOOSE x \in 1..Len(argv.d) :
    /\ argv.d[x].key = key
    /\ \A y \in 1..(x - 1) : argv.d[y].key # key

\* the date filters of the query of the list request
SentFilters(c) ==
  DateOptionKeys \cap DOMAIN QueryOf(c)

\* C25, as stated: when both date options are given, the filter sent is the
\* one whose flag is parsed later, that is, the one of the last date flag of
\* the command line.
C25_LaterFlagWins ==
  \A k \in 1..Len(calls) :
    (calls[k].op = "GET videos/query" /\ Given("createdAfter") /\ Given("modifiedAfter"))
      => SentFilters(calls[k]) = { argv.d[Len(argv.d)].key }

\* C25, amended: when both date options are given, the filter sent is the
\* one whose flag occurs first at the later place of the command line: a
\* flag that is repeated keeps the place of its first occurrence, and the
\* value sent is the one of its last occurrence.  The query is a function
\* of the arguments and their order.
C25_LaterFirstOccurrenceWins ==
  \A k \in 1..Len(calls) :
    (calls[k].op = "GET videos/query" /\ Given("createdAfter") /\ Given("modifiedAfter"))
      => LET later == IF FirstPlace("createdAfter") > FirstPlace("modifiedAfter")
                      THEN "createdAfter" ELSE "modifiedAfter"
         IN /\ SentFilters(calls[k]) = { later }
            /\ QueryOf(calls[k])[later] = LastGiven(later)

\* -C, -M, -C: the list request carries modifiedAfter
C25_Witness ==
  /\ Len(argv.d) = 3
  /\ argv.d[1].key = "createdAfter"
  /\ argv.d[2].key = "modifiedAfter"
  /\ argv.d[3].key = "createdAfter"
  /\ Len(calls) >= 1
  /\ calls[1].op = "GET videos/query"
  /\ SentFilters(calls[1]) = { "modifiedAfter" }

(***************************************************************************)
(* failed.json.                                                            *)
(***************************************************************************)
\* the item POSTs of the run whose response lists failed items
FailingPosts ==
  SelectSeq(PostCalls, LAMBDA c : c.ok /\ DOMAIN c.data.failed # {})

\* C26: at the end of a run in which every write of failed.json succeeded,
\* failed.json was written if and only if some item failed in the run, and
\* it holds the failed items of every chunk whose response listed failed
\* items, in the order of the chunks.
C26_FailedJsonHoldsEveryFailure ==
  (pc = "exited" /\ ~writeFileErr) =>
    /\ failedJson.written <=> FailingPosts # << >>
    /\ FailingPosts # << >> =>
         failedJson.content =
           [ k \in 1..Len(FailingPosts) |-> FailingPosts[k].data.failed ]

(***************************************************************************)
(* Termination.                                                            *)
(***************************************************************************)
\* C27: every run ends: whatever the payloads and the chunk size the parser
\* of -c yields, the process of a run that keeps being scheduled exits, after
\* the summary, after a dump, on an abort or on an uncaught exception.
C27_EveryRunTerminates ==
  <>(pc \in { "exited", "crashed" })

(***************************************************************************)
(* Runs after runs.                                                        *)
(***************************************************************************)
\* C28: over any sequence of runs, the library never holds two items for
\* one record of the videos table, and no payload is submitted without key
\* and version for a record the library already holds an item for.
C28_NoDuplicateItems ==
  /\ \A n \in 1..Len(esovdbVideos) : ItemsFor(zotItems, n) <= 1
  /\ \A k \in 1..Len(payloads) :
       ("key" \notin DOMAIN payloads[k]) =>
         \/ \A x \in 1..Len(zotItems) :
              MatchRecordId(zotItems[x].data.archiveLocation)
                # MatchRecordId(payloads[k].archiveLocation)
         \/ \E c \in 1..Len(calls) :
              /\ calls[c].op = "POST items"
              /\ calls[c].ok
              /\ \E b \in 1..Len(calls[c].body) : calls[c].body[b] = payloads[k]

(***************************************************************************)
(* The summary.                                                            *)
(***************************************************************************)
\* the number a summary prints on the line with a text, or -1 when it does
\* not print the line
PrintedCount(lines, text) ==
  IF \E k \in 1..Len(lines) : lines[k].text = text
  THEN lines[CHOOSE k \in 1..Len(lines) : lines[k].text = text].count
  ELSE 0 - 1

\* a summary prints each total that is greater than zero on its own line
\* and no other line
OwnTotals(lines) ==
  /\ PrintedCount(lines, "total added or updated.") =
       IF totalSuccessful > 0 THEN totalSuccessful ELSE 0 - 1
  /\ PrintedCount(lines, "total left unchanged.") =
       IF totalUnchanged > 0 THEN totalUnchanged ELSE 0 - 1
  /\ PrintedCount(lines, "total failed to add or update.") =
       IF totalFailed > 0 THEN totalFailed ELSE 0 - 1

\* C29: after a loop that completed, each line of the summary shows its own
\* total: the line for added or updated items totalSuccessful, the line for
\* unchanged items totalUnchanged, the line for failed items totalFailed; a
\* line is printed exactly when its total is greater than zero.  This is
\* stated for the summary of version 1.5.0 and for the one of bin/index.js.
C29_SummaryShowsOwnTotals ==
  LoopCompleted =>
    /\ OwnTotals(Summary(totalSuccessful, totalUnchanged, totalFailed))
    /\ OwnTotals(SummaryBin(totalSuccessful, totalUnchanged, totalFailed))

(***************************************************************************)
(* The record id on its way through the library and back.                  *)
(***************************************************************************)
\* characters put at each place of a record id
SampleChars == { "_", "0", "Z", "c", "e", "r" }

\* record ids of the form: 'rec', then 14 word characters that repeat
\* r, e, c, with one of the sample characters at one place
SampleRecordIds ==
  { [ k \in 1..(3 + IdWordChars) |->
        IF k = 3 + p THEN ch
        ELSE << "r", "e", "c" >>[((k - 1) % 3) + 1] ] :
      p \in 1..IdWordChars, ch \in SampleChars }

\* C30: for a recordId of the form 'rec' and 14 word characters, the id the
\* pattern extracts from the archiveLocation formatItems builds is the
\* recordId.  In a run, the id extracted from a payload is the one of its
\* record, and the id of each entry of the update of the videos table is
\* the one of the record whose payload the library echoed in the item.
C30_RecordIdRoundTrip ==
  /\ pc = "start" =>
       \A id \in SampleRecordIds :
         MatchRecordId(ArchiveLocationPrefix \o id) = id
  /\ \A k \in 1..Len(res) :
       MatchRecordId(res[k].archiveLocation) = videos[k].recordId
  /\ \A k \in 1..Len(posted) :
       \E n \in 1..Len(payloads) :
         /\ posted[k].data = payloads[n]
         /\ ItemsToSync(posted)[k].id = videos[n].recordId
  /\ \A c \in 1..Len(UpdateVideosCalls) :
       UpdateVideosCalls[c].body = ItemsToSync(posted)

\* the videos table was updated for three records, each with the key of the
\* item that carries its id
C30_Witness ==
  /\ Len(UpdateVideosCalls) = 1
  /\ UpdateVideosCalls[1].ok
  /\ Len(posted) = 3
  /\ \A n \in 1..3 :
       \E x \in 1..Len(zotItems) :
         /\ MatchRecordId(zotItems[x].data.archiveLocation) = RecordId(n)
         /\ esovdbVideos[n].zoteroKey = zotItems[x].key

====
